---- MODULE Spec2Model ----
(***************************************************************************)
(* Model of the SumError derive macro (src/lib.rs).                        *)
(*                                                                         *)
(* derive_sum_error takes a parsed DeriveInput, folds over the variants of *)
(* an enum building a StreamHolder, maps the holder to the generated       *)
(* token stream and unwraps the Result (a panic when it is an Err).        *)
(* Token streams are modelled structurally: a stream is a sequence of      *)
(* items, an item is a record naming what the quote! template emits.       *)
(***************************************************************************)
EXTENDS Integers, Sequences, FiniteSets, TLC

VARIABLES input, pc, idx, holder_r, result, output, runs, prev

vars == <<input, pc, idx, holder_r, result, output, runs, prev>>

(***************************************************************************)
(* Bounds of the explored inputs.                                          *)
(***************************************************************************)
MaxVariants == 3
MaxFields == 2
MaxRuns == 2

Names == {"E"}
Types == {"T1", "T2", "T3"}
Values == {"v1", "v2"}

(***************************************************************************)
(* The two diagnostics of the fold and the one of the outer match.         *)
(***************************************************************************)
InvalidArityMsg == "Invalid number of contained errors! Only one error allowed in any enum variant!"
NamedPayloadMsg == "Contained in variants errors should be unnamed!"
NotEnumMsg == "Deriving from SumError is only avaliable for enums of errors!"

(***************************************************************************)
(* Result<V, E>.                                                           *)
(***************************************************************************)
None == [tag |-> "None"]
Ok(v) == [tag |-> "Ok", v |-> v]
Err(e) == [tag |-> "Err", e |-> e]
IsOk(r) == r.tag = "Ok"
IsErr(r) == r.tag = "Err"

(***************************************************************************)
(* The input declarations.  A field is its type and the span of the type;  *)
(* the span is the position of the field in the declaration.  The macro    *)
(* reads the kind of a field list, of an unnamed one the length, and of an *)
(* unnamed one of length 1 the type of the field; the types it never reads *)
(* are all RestTy.  The variants of an enum have distinct names; the i-th  *)
(* one is named i.                                                         *)
(***************************************************************************)
RestTy == "T1"

FieldList(i, len, t) ==
    [j \in 1..len |-> [ty |-> IF j = 1 THEN t ELSE RestTy, span |-> <<i, j>>]]

FieldsOf(i) ==
    {[kind |-> "Unit", list |-> <<>>]}
    \cup {[kind |-> "Named", list |-> FieldList(i, len, RestTy)] : len \in 0..MaxFields}
    \cup {[kind |-> "Unnamed", list |-> FieldList(i, len, RestTy)] : len \in 0..MaxFields}
    \cup {[kind |-> "Unnamed", list |-> FieldList(i, 1, t)] : t \in Types}

VariantsOf(i) == {[ident |-> i, fields |-> f] : f \in FieldsOf(i)}

RECURSIVE VariantLists(_)
VariantLists(n) ==
    IF n = 0 THEN {<<>>}
    ELSE {Append(vs, v) : vs \in VariantLists(n - 1), v \in VariantsOf(n)}

Declarations ==
    {[ident |-> nm, data |-> [kind |-> "Enum", variants |-> vs]] :
        nm \in Names, vs \in UNION {VariantLists(n) : n \in 0..MaxVariants}}
    \cup {[ident |-> nm, data |-> [kind |-> "Struct", fields |-> f]] :
        nm \in Names, f \in FieldsOf(0)}
    \cup {[ident |-> nm, data |-> [kind |-> "Union", fields |-> f]] :
        nm \in Names, f \in {g \in FieldsOf(0) : g.kind = "Named"}}

(***************************************************************************)
(* Result::and_then and Result::map, the closure given by its value on the *)
(* Ok payload r.v (read only when r is Ok), and ResultExtender::check:     *)
(* keep an Ok value that passes check_block, turn one that does not into   *)
(* the Err of throw_block.                                                 *)
(***************************************************************************)
and_then(r, closure_of_v) == IF IsOk(r) THEN closure_of_v ELSE r
map(r, closure_of_v) == IF IsOk(r) THEN Ok(closure_of_v) ELSE r
check(r, check_block_of_v, throw_block_of_v) ==
    and_then(r, IF check_block_of_v THEN Ok(r.v) ELSE Err(throw_block_of_v))

(***************************************************************************)
(* StreamHolder::new.                                                      *)
(***************************************************************************)
StreamHolderNew ==
    [check_streams |-> <<>>, match_streams |-> <<>>, into_streams |-> <<>>]

(***************************************************************************)
(* The three fragments built for one variant with unnamed fields u.        *)
(***************************************************************************)
assert_error(u) ==
    [bound |-> u[1].ty, trait |-> "std::error::Error", span |-> u[1].span]

match_stream(name, var_name) ==
    [name_local |-> name, var_name_local |-> var_name]

\* Faulty variant: every conversion builds the first variant.
into_stream_first_variant(name, var_name, u) ==
    [item |-> "impl", trait |-> "From", ty |-> u[1].ty, for |-> name,
     from |-> [arg |-> u[1].ty, enum |-> name, variant |-> 1],
     span |-> u[1].span]

into_stream(name, var_name, u) ==
    [item |-> "impl", trait |-> "From", ty |-> u[1].ty, for |-> name,
     from |-> [arg |-> u[1].ty, enum |-> name, variant |-> var_name],
     span |-> u[1].span]

(***************************************************************************)
(* Calling a match arm template: name::var(error) => process,              *)
(***************************************************************************)
CallTemplate(mat, process) ==
    [enum |-> mat.name_local, variant |-> mat.var_name_local,
     bind |-> "error", body |-> process]

\* Faulty variant: the last template is left out.
create_stream_short(streams, t) ==
    [i \in 1..(Len(streams) - 1) |-> CallTemplate(streams[i], t)]

create_stream(streams, t) ==
    [i \in 1..Len(streams) |-> CallTemplate(streams[i], t)]

(***************************************************************************)
(* The body of the fold closure for an Ok holder: one variant.             *)
(***************************************************************************)
\* Faulty variant: a conversion is pushed only for a payload type not seen before.
PushStreamsDedup(holder, name, var, u) ==
    Ok([check_streams |-> Append(holder.check_streams, assert_error(u)),
        match_streams |-> Append(holder.match_streams, match_stream(name, var.ident)),
        into_streams |->
            IF \E k \in DOMAIN holder.into_streams : holder.into_streams[k].ty = u[1].ty
            THEN holder.into_streams
            ELSE Append(holder.into_streams, into_stream(name, var.ident, u))])

\* Faulty variant: the constraint is inserted at the front of check_streams.
PushStreamsFront(holder, name, var, u) ==
    Ok([check_streams |-> <<assert_error(u)>> \o holder.check_streams,
        match_streams |-> Append(holder.match_streams, match_stream(name, var.ident)),
        into_streams |-> Append(holder.into_streams, into_stream(name, var.ident, u))])

PushStreams(holder, name, var, u) ==
    Ok([check_streams |-> Append(holder.check_streams, assert_error(u)),
        match_streams |-> Append(holder.match_streams, match_stream(name, var.ident)),
        into_streams |-> Append(holder.into_streams, into_stream(name, var.ident, u))])

ProcessVariant(holder, name, var) ==
    IF var.fields.kind = "Unnamed"
    THEN LET checked == check(Ok(var.fields.list),
                              Len(var.fields.list) = 1,
                              InvalidArityMsg)
         IN  and_then(checked, PushStreams(holder, name, var, checked.v))
    ELSE Err(NamedPayloadMsg)

\* Faulty variant: a failed accumulator is replaced by a fresh holder and the fold goes on.
FoldClosureGoesOn(acc, name, var) ==
    ProcessVariant(IF IsOk(acc) THEN acc.v ELSE StreamHolderNew, name, var)

FoldClosure(acc, name, var) ==
    and_then(acc, ProcessVariant(acc.v, name, var))

(***************************************************************************)
(* The closure given to map: the generated token stream.                   *)
(***************************************************************************)
Method(fn, arms) == [fn |-> fn, arms |-> arms]

AssertBlock(it, name) ==
    [item |-> "struct", ident |-> <<"___", "AssertName", name>>,
     where |-> it.check_streams]

TraitImpls(it, name) ==
    LET local_debug == create_stream(it.match_streams, "write!(f, \"{:?}\", error)")
        local_display == create_stream(it.match_streams, "write!(f, \"{}\", error)")
        local_description == create_stream(it.match_streams, "error.description()")
        local_cause == create_stream(it.match_streams, "Some(error)")
        local_source == create_stream(it.match_streams, "Some(error)")
    IN  <<[item |-> "impl", trait |-> "std::fmt::Debug", for |-> name,
           methods |-> <<Method("fmt", local_debug)>>],
          [item |-> "impl", trait |-> "std::fmt::Display", for |-> name,
           methods |-> <<Method("fmt", local_display)>>],
          [item |-> "impl", trait |-> "std::error::Error", for |-> name,
           methods |-> <<Method("description", local_description),
                         Method("cause", local_cause),
                         Method("source", local_source)>>]>>

\* Faulty variant: the conversions are not added to the result.
EmitResultNoInto(it, name) ==
    <<AssertBlock(it, name)>> \o TraitImpls(it, name)

\* Faulty variant: the assertion struct is numbered by a counter kept across expansions.
EmitResultCounted(it, name) ==
    <<[item |-> "struct", ident |-> <<"___", "AssertName", name, runs>>,
       where |-> it.check_streams]>>
    \o TraitImpls(it, name) \o it.into_streams

EmitResult(it, name) ==
    <<AssertBlock(it, name)>> \o TraitImpls(it, name) \o it.into_streams

(***************************************************************************)
(* What the generated conversion does with a payload value.                *)
(***************************************************************************)
ApplyFrom(impl, value) ==
    [enum |-> impl.from.enum, variant |-> impl.from.variant, payload |-> value]

(***************************************************************************)
(* The state machine of one expansion, and the host expanding again.       *)
(***************************************************************************)
Init ==
    /\ input \in Declarations
    /\ pc = "match"
    /\ idx = 0
    /\ holder_r = None
    /\ result = None
    /\ output = None
    /\ runs = 1
    /\ prev = None

MatchEnum ==
    /\ pc = "match"
    /\ input.data.kind = "Enum"
    /\ holder_r' = Ok(StreamHolderNew)
    /\ idx' = 0
    /\ pc' = "fold"
    /\ UNCHANGED <<input, result, output, runs, prev>>

\* Faulty variant: a declaration that is not an enum yields an empty token stream.
MatchOtherEmpty ==
    /\ pc = "match"
    /\ input.data.kind # "Enum"
    /\ result' = Ok(<<>>)
    /\ pc' = "unwrap"
    /\ UNCHANGED <<input, idx, holder_r, output, runs, prev>>

MatchOther ==
    /\ pc = "match"
    /\ input.data.kind # "Enum"
    /\ result' = Err(NotEnumMsg)
    /\ pc' = "unwrap"
    /\ UNCHANGED <<input, idx, holder_r, output, runs, prev>>

FoldStep ==
    /\ pc = "fold"
    /\ idx < Len(input.data.variants)
    /\ holder_r' = FoldClosure(holder_r, input.ident, input.data.variants[idx + 1])
    /\ idx' = idx + 1
    /\ UNCHANGED <<input, pc, result, output, runs, prev>>

MapHolder ==
    /\ pc = "fold"
    /\ idx = Len(input.data.variants)
    /\ result' = map(holder_r, EmitResult(holder_r.v, input.ident))
    /\ pc' = "unwrap"
    /\ UNCHANGED <<input, idx, holder_r, output, runs, prev>>

Unwrap ==
    /\ pc = "unwrap"
    /\ output' = IF IsOk(result)
                 THEN [kind |-> "tokens", ts |-> result.v]
                 ELSE [kind |-> "panic", msg |-> result.e, ts |-> <<>>]
    /\ pc' = "done"
    /\ UNCHANGED <<input, idx, holder_r, result, runs, prev>>

Rerun ==
    /\ pc = "done"
    /\ runs < MaxRuns
    /\ prev' = output
    /\ runs' = runs + 1
    /\ pc' = "match"
    /\ idx' = 0
    /\ holder_r' = None
    /\ result' = None
    /\ output' = None
    /\ UNCHANGED input

Next == MatchEnum \/ MatchOther \/ FoldStep \/ MapHolder \/ Unwrap \/ Rerun

Spec == Init /\ [][Next]_vars

(***************************************************************************)
(* Vocabulary of the properties.                                           *)
(***************************************************************************)
IsEnum == input.data.kind = "Enum"
Variants == input.data.variants
N == Len(Variants)
Arity(var) == Len(var.fields.list)
Positional(var) == var.fields.kind = "Unnamed"
HasNamedField(var) == var.fields.kind = "Named" /\ Arity(var) >= 1
WellFormed(var) == Positional(var) /\ Arity(var) = 1
PayloadTy(var) == var.fields.list[1].ty
AllWellFormed == \A i \in 1..N : WellFormed(Variants[i])
HasInvalid == \E i \in 1..N : ~WellFormed(Variants[i])
FirstInvalid == CHOOSE i \in 1..N :
    ~WellFormed(Variants[i]) /\ \A j \in 1..(i - 1) : WellFormed(Variants[j])
DistinctTypes ==
    \A i, j \in 1..N : i # j => PayloadTy(Variants[i]) # PayloadTy(Variants[j])

Done == pc = "done"
Succeeded == Done /\ output.kind = "tokens"
FailedWith(msg) ==
    Done /\ output.kind = "panic" /\ output.msg = msg /\ output.ts = <<>>

IsImpl(it, trait) == it.item = "impl" /\ it.trait = trait
Count(ts, P(_)) == Cardinality({i \in DOMAIN ts : P(ts[i])})
ImplOf(ts, trait) == ts[CHOOSE i \in DOMAIN ts : IsImpl(ts[i], trait)]
FromImpls(ts) == SelectSeq(ts, LAMBDA it : IsImpl(it, "From"))
MethodOf(impl, fn) ==
    impl.methods[CHOOSE k \in DOMAIN impl.methods : impl.methods[k].fn = fn]

(***************************************************************************)
(* C1: an enum whose variants all carry exactly one positional payload,    *)
(* of pairwise distinct types, derives successfully, and the output is the *)
(* assertion block, the formatting implementation (its two facets, Debug   *)
(* and Display), the Error implementation and N From implementations, in   *)
(* this order and nothing else.                                            *)
(***************************************************************************)
C1_OutputShape ==
    (Done /\ IsEnum /\ AllWellFormed /\ DistinctTypes) =>
        /\ output.kind = "tokens"
        /\ Len(output.ts) = N + 4
        /\ Count(output.ts, LAMBDA it : it.item = "struct") = 1
        /\ output.ts[1].item = "struct"
        /\ Count(output.ts, LAMBDA it : IsImpl(it, "std::fmt::Debug")) = 1
        /\ Count(output.ts, LAMBDA it : IsImpl(it, "std::fmt::Display")) = 1
        /\ IsImpl(output.ts[2], "std::fmt::Debug")
        /\ IsImpl(output.ts[3], "std::fmt::Display")
        /\ Count(output.ts, LAMBDA it : IsImpl(it, "std::error::Error")) = 1
        /\ IsImpl(output.ts[4], "std::error::Error")
        /\ Count(output.ts, LAMBDA it : IsImpl(it, "From")) = N

C1_Witness ==
    Done /\ IsEnum /\ N = MaxVariants /\ AllWellFormed /\ DistinctTypes
    /\ output.kind = "tokens" /\ Len(FromImpls(output.ts)) = N

(***************************************************************************)
(* C2: when the first invalid variant of an enum has payload arity 0 or    *)
(* at least 2, the derivation fails with the InvalidArity message and      *)
(* produces no output.                                                     *)
(***************************************************************************)
C2_InvalidArity ==
    (Done /\ IsEnum /\ HasInvalid /\ Arity(Variants[FirstInvalid]) # 1) =>
        FailedWith(InvalidArityMsg)

(***************************************************************************)
(* C3: when the first invalid variant of an enum uses a named payload      *)
(* field the derivation fails with the NamedPayloadNotAllowed message, and *)
(* only a variant with named fields produces that failure.                 *)
(***************************************************************************)
C3_NamedPayload ==
    (Done /\ IsEnum) =>
        /\ (HasInvalid /\ HasNamedField(Variants[FirstInvalid]))
              => FailedWith(NamedPayloadMsg)
        /\ FailedWith(NamedPayloadMsg)
              => (HasInvalid /\ HasNamedField(Variants[FirstInvalid]))

(***************************************************************************)
(* C4: a declaration that is not an enum never enters the fold (no holder  *)
(* is created, no field is visited) and ends in the NotAUnion failure with *)
(* no output, whatever its fields are.                                     *)
(***************************************************************************)
C4_NotAnEnum ==
    ~IsEnum =>
        /\ pc # "fold"
        /\ idx = 0
        /\ holder_r = None
        /\ (pc = "unwrap" => result = Err(NotEnumMsg))
        /\ (Done => FailedWith(NotEnumMsg))

C4_Witness ==
    Done /\ input.data.kind = "Struct" /\ Len(input.data.fields.list) = 1
    /\ input.data.fields.kind = "Unnamed" /\ FailedWith(NotEnumMsg)

(***************************************************************************)
(* What a variant yields on its own, the final failure of a declaration    *)
(* with an invalid variant, and the step that keeps an Err.                *)
(***************************************************************************)
VariantFailure(var) == ProcessVariant(StreamHolderNew, input.ident, var)

C5_FirstFailureWins ==
    (IsEnum /\ HasInvalid) =>
        /\ (pc = "fold" /\ idx >= FirstInvalid)
              => holder_r = VariantFailure(Variants[FirstInvalid])
        /\ (pc \in {"unwrap", "done"})
              => result = VariantFailure(Variants[FirstInvalid])
        /\ Done => /\ IsErr(VariantFailure(Variants[FirstInvalid]))
                   /\ FailedWith(VariantFailure(Variants[FirstInvalid]).e)

C5_ErrIsKept ==
    (pc = "fold" /\ IsErr(holder_r)) =>
        /\ pc' = "fold" => holder_r' = holder_r
        /\ pc' = "unwrap" => result' = holder_r

(***************************************************************************)
(* C5: the fold short-circuits.  Once the holder is an Err no later        *)
(* variant changes it, map hands the same Err on, and the derivation ends  *)
(* with the failure of the first invalid variant in declaration order      *)
(* (what that variant yields on its own) and with no generated code.       *)
(***************************************************************************)
C5_ShortCircuit == [](C5_FirstFailureWins) /\ [][C5_ErrIsKept]_vars

C5_Witness ==
    /\ Done /\ IsEnum /\ N = MaxVariants
    /\ WellFormed(Variants[1])
    /\ \A i \in 2..N : ~WellFormed(Variants[i])
    /\ VariantFailure(Variants[2]) # VariantFailure(Variants[N])
    /\ FailedWith(VariantFailure(Variants[2]).e)

(***************************************************************************)
(* C6: in a successful derivation the conversion generated for the i-th    *)
(* variant takes the payload type of that variant and, applied to any      *)
(* value, builds the enum value of that variant holding that value.        *)
(***************************************************************************)
C6_FromRoundTrip ==
    Succeeded =>
        \A i \in 1..N : \A v \in Values :
            LET impl == FromImpls(output.ts)[i]
            IN  /\ impl.ty = PayloadTy(Variants[i])
                /\ impl.from.arg = PayloadTy(Variants[i])
                /\ impl.for = input.ident
                /\ ApplyFrom(impl, v).enum = input.ident
                /\ ApplyFrom(impl, v).variant = Variants[i].ident
                /\ ApplyFrom(impl, v).payload = v

C6_Witness ==
    Succeeded /\ N >= 2 /\ DistinctTypes
    /\ ApplyFrom(FromImpls(output.ts)[2], "v1").variant = Variants[2].ident

(***************************************************************************)
(* C7: a successful derivation emits one From implementation per variant,  *)
(* keyed by the payload type of that variant, without deduplication: a     *)
(* type carried by k variants gets k From implementations.                 *)
(***************************************************************************)
C7_NoDeduplication ==
    (Done /\ IsEnum /\ AllWellFormed) =>
        /\ output.kind = "tokens"
        /\ Len(FromImpls(output.ts)) = N
        /\ \A t \in Types :
              Count(output.ts, LAMBDA it : IsImpl(it, "From") /\ it.ty = t)
                = Cardinality({i \in 1..N : PayloadTy(Variants[i]) = t})

C7_Witness ==
    /\ Succeeded /\ N >= 2
    /\ PayloadTy(Variants[1]) = PayloadTy(Variants[2])
    /\ Count(output.ts, LAMBDA it : IsImpl(it, "From")
                                      /\ it.ty = PayloadTy(Variants[1])) >= 2

C9_HolderAligned ==
    (pc = "fold" /\ IsOk(holder_r)) =>
        LET h == holder_r.v
        IN  /\ Len(h.check_streams) = idx
            /\ Len(h.match_streams) = idx
            /\ Len(h.into_streams) = idx
            /\ \A i \in 1..idx :
                  /\ WellFormed(Variants[i])
                  /\ h.check_streams[i].bound = PayloadTy(Variants[i])
                  /\ h.check_streams[i].span = Variants[i].fields.list[1].span
                  /\ CallTemplate(h.match_streams[i], "p").enum = input.ident
                  /\ CallTemplate(h.match_streams[i], "p").variant = Variants[i].ident
                  /\ CallTemplate(h.match_streams[i], "p").body = "p"
                  /\ h.into_streams[i].ty = PayloadTy(Variants[i])
                  /\ h.into_streams[i].for = input.ident
                  /\ h.into_streams[i].from.variant = Variants[i].ident

C9_Witness ==
    pc = "fold" /\ IsOk(holder_r) /\ idx = MaxVariants
    /\ Len(holder_r.v.check_streams) = MaxVariants

(***************************************************************************)
(* C10: in a successful derivation each of the five match expressions has  *)
(* one arm per variant in declaration order, each arm binding the payload  *)
(* of its variant and carrying the body of that match; cause and source    *)
(* have the same arms; every value of the enum meets exactly one arm.      *)
(***************************************************************************)
Matches ==
    <<[trait |-> "std::fmt::Debug", fn |-> "fmt", body |-> "write!(f, \"{:?}\", error)"],
      [trait |-> "std::fmt::Display", fn |-> "fmt", body |-> "write!(f, \"{}\", error)"],
      [trait |-> "std::error::Error", fn |-> "description", body |-> "error.description()"],
      [trait |-> "std::error::Error", fn |-> "cause", body |-> "Some(error)"],
      [trait |-> "std::error::Error", fn |-> "source", body |-> "Some(error)"]>>

ArmsOf(m) == MethodOf(ImplOf(output.ts, m.trait), m.fn).arms

C10_MatchArms ==
    Succeeded =>
        /\ \A k \in DOMAIN Matches :
              LET arms == ArmsOf(Matches[k])
              IN  /\ Len(arms) = N
                  /\ \A i \in 1..N :
                        /\ arms[i].enum = input.ident
                        /\ arms[i].variant = Variants[i].ident
                        /\ arms[i].bind = "error"
                        /\ arms[i].body = Matches[k].body
                  /\ \A i \in 1..N :
                        Cardinality({j \in DOMAIN arms :
                            arms[j].variant = Variants[i].ident}) = 1
        /\ ArmsOf(Matches[4]) = ArmsOf(Matches[5])

C10_Witness ==
    Succeeded /\ N = MaxVariants /\ Len(ArmsOf(Matches[1])) = MaxVariants
    /\ ArmsOf(Matches[4])[N].variant = Variants[N].ident

====
